---- MODULE Spec2Model ----
(***************************************************************************)
(* Model of the taxi-trip ingestion pipeline (data_loader.py) and of the   *)
(* analytics gateway (interface.py) over a Neo4j graph.                    *)
(*                                                                         *)
(* Numbers with a decimal point are kept in hundredths: a trip distance    *)
(* of 0.1 is 10, a fare of 2.5 is 250.  A timestamp is a record of whole   *)
(* seconds and a sub-second part; its strftime text is modelled by the     *)
(* whole seconds the text spells out.  A file path is the sequence of its  *)
(* pieces, where "." and "/" are pieces of their own.                      *)
(***************************************************************************)
EXTENDS Integers, Sequences, FiniteSets, Bags, TLC

VARIABLES
    pc,            \* position of main() / load_transform_file
    runs,          \* number of runs of main() started so far
    file_path,     \* argument of load_transform_file
    disk,          \* rows of the input file as stored on disk
    trips,         \* the local data frame `trips`
    csv_filename,  \* the local `csv_filename`
    staging,       \* files of /var/lib/neo4j/import/: name -> rows
    constraint,    \* location_name_unique exists
    nodes,         \* bag of the names of the :Location nodes
    edges,         \* bag of the :TRIP relationships
    driverOpen,    \* the DataLoader's driver is connected
    constructed,   \* DataLoader.__init__ returned in this run
    closeCalled,   \* DataLoader.close() was called in this run
    printed,       \* "Data loaded successfully." was printed in this run
    outcome,       \* "none", "running", "success" or "raised"
    failedAt,      \* the step whose failure aborted this run
    projection,    \* the GDS catalog entry 'myGraph'
    call           \* the last Interface call and what it returned

vars == <<pc, runs, file_path, disk, trips, csv_filename, staging, constraint,
          nodes, edges, driverOpen, constructed, closeCalled, printed, outcome,
          failedAt, projection, call>>

loaderVars == <<pc, runs, file_path, trips, csv_filename, driverOpen,
                constructed, closeCalled, printed, outcome, failedAt>>
dbVars == <<staging, constraint, nodes, edges>>

-----------------------------------------------------------------------------
(* Bounds of the model *)

MaxRows == 2
MaxRuns == 2
MaxScore == 2
MaxExts == 3

-----------------------------------------------------------------------------
(* Constants of the program *)

bronx ==
    { 3, 18, 20, 31, 32, 46, 47, 51, 58, 59, 60, 69, 78, 81, 94,
      119, 126, 136, 147, 159, 167, 168, 169, 174, 182, 183, 184,
      185, 199, 200, 208, 212, 213, 220, 235, 240, 241, 242,
      247, 248, 250, 254, 259 }

\* trips['trip_distance'] > 0.1, in hundredths
DistanceMin == 10
\* trips['fare_amount'] > 2.5, in hundredths
FareMin == 250

ImportDir == <<"/", "var", "/", "lib", "/", "neo4j", "/", "import", "/">>

\* the argument main() passes to load_transform_file
MainFile == <<"yellow_tripdata_2022-03", ".", "parquet">>

-----------------------------------------------------------------------------
(* Inputs *)

Ts(s, f) == [sec |-> s, frac |-> f]

Trip(pu, do, dist, fare, pickFrac) ==
    [ tpep_pickup_datetime  |-> Ts(100, pickFrac),
      tpep_dropoff_datetime |-> Ts(160, 0),
      PULocationID  |-> pu,
      DOLocationID  |-> do,
      trip_distance |-> dist,
      fare_amount   |-> fare ]

\* Location ids a caller may ask about: three of the bronx set and one outside it.
LocIds == {1, 3, 18, 20}

\* Rows of the files the pipeline runs on: a trip, the same trip a fraction of a
\* second later, a second trip, and a trip that leaves the bronx set.
RowUniverse ==
    { Trip(3, 18, 11, 251, 0),
      Trip(3, 18, 11, 251, 5),
      Trip(18, 20, 11, 251, 0),
      Trip(18, 1, 11, 251, 0) }

\* Rows of the files the queries are run over: a chain 3 -> 18 -> 20 and a loop.
QueryUniverse ==
    { Trip(3, 18, 11, 251, 0),
      Trip(18, 20, 11, 251, 0),
      Trip(20, 20, 11, 251, 0) }

\* Rows of the tables the filter chain is checked on.
FilterUniverse ==
    { Trip(pu, do, dist, fare, 0) :
        pu \in {1, 3}, do \in {1, 18},
        dist \in {DistanceMin, DistanceMin + 1},
        fare \in {FareMin, FareMin + 1} }

TablesOver(rows) == UNION { [1..n -> rows] : n \in 0..MaxRows }

Files == TablesOver(RowUniverse)
QueryFiles == TablesOver(QueryUniverse)
FilterTables == TablesOver(FilterUniverse)

\* Paths a caller may pass: the file name trips with up to MaxExts extensions,
\* bare, under ./ or under a directory.
Extensions == {"v2", "parquet"}

RECURSIVE Dotted(_)
Dotted(exts) ==
    IF exts = <<>> THEN <<>> ELSE <<".", Head(exts)>> \o Dotted(Tail(exts))

PathUniverse ==
    { dir \o <<"trips">> \o Dotted(exts) :
        dir \in {<<>>, <<".", "/">>, <<"data", "/">>},
        exts \in UNION { [1..n -> Extensions] : n \in 0..MaxExts } }

-----------------------------------------------------------------------------
(* data_loader.py: the transform *)

IsIn(v, values) == v \in values

\* the zone filter, had it looked at the pickup column alone
FilterZonePickupOnly(t) ==
    SelectSeq(t, LAMBDA r : IsIn(r.PULocationID, bronx))

\* trips[trips['PULocationID'].isin(bronx) & trips['DOLocationID'].isin(bronx)]
FilterZone(t) ==
    SelectSeq(t, LAMBDA r : IsIn(r.PULocationID, bronx) /\ IsIn(r.DOLocationID, bronx))

\* the distance filter, had it compared with >=
FilterDistanceInclusive(t) == SelectSeq(t, LAMBDA r : r.trip_distance >= DistanceMin)

\* trips[trips['trip_distance'] > 0.1]
FilterDistance(t) == SelectSeq(t, LAMBDA r : r.trip_distance > DistanceMin)

\* trips[trips['fare_amount'] > 2.5]
FilterFare(t) == SelectSeq(t, LAMBDA r : r.fare_amount > FareMin)

\* .dt.strftime('%Y-%m-%dT%H:%M:%S'): the text carries the whole seconds only
Strftime(ts) == ts.sec

Reformat(t) ==
    [ i \in DOMAIN t |->
        [ t[i] EXCEPT !.tpep_pickup_datetime  = Strftime(t[i].tpep_pickup_datetime),
                      !.tpep_dropoff_datetime = Strftime(t[i].tpep_dropoff_datetime) ] ]

\* index of the first "." of a path, or Len + 1 when there is none
FirstDot(p) ==
    IF \E i \in DOMAIN p : p[i] = "."
    THEN CHOOSE i \in DOMAIN p : p[i] = "." /\ \A j \in 1..(i - 1) : p[j] # "."
    ELSE Len(p) + 1

\* file_path.split(".")[0] + ".csv"
CsvFilename(p) == SubSeq(p, 1, FirstDot(p) - 1) \o <<".", "csv">>

\* the file "/var/lib/neo4j/import/" + csv_filename that to_csv writes
CsvTarget(name) == ImportDir \o name

\* the file that LOAD CSV FROM 'file:///{csv_filename}' reads
LoadSource(name) == ImportDir \o name

-----------------------------------------------------------------------------
(* data_loader.py: the Cypher of the bulk load *)

\* MERGE (l:Location {name: ...})
MergeNode(ns, name) ==
    IF BagIn(name, ns) THEN ns ELSE ns (+) SetToBag({name})

TripOf(row) ==
    [ src  |-> row.PULocationID,
      dst  |-> row.DOLocationID,
      distance   |-> row.trip_distance,
      fare       |-> row.fare_amount,
      pickup_dt  |-> row.tpep_pickup_datetime,
      dropoff_dt |-> row.tpep_dropoff_datetime ]

\* MERGE (start)-[t:TRIP {...}]->(end)
MergeTrip(es, e) ==
    IF BagIn(e, es) THEN es ELSE es (+) SetToBag({e})

\* one row of LOAD CSV
LoadRow(g, row) ==
    [ nodes |-> MergeNode(MergeNode(g.nodes, row.PULocationID), row.DOLocationID),
      edges |-> MergeTrip(g.edges, TripOf(row)) ]

RECURSIVE LoadCsv(_, _)
LoadCsv(g, rows) ==
    IF rows = <<>> THEN g
    ELSE LoadCsv(LoadRow(g, Head(rows)), Tail(rows))

-----------------------------------------------------------------------------
(* data_loader.py: main() and load_transform_file, step by step *)

NoCall == [op |-> "none"]
NoProjection == [exists |-> FALSE]

Init ==
    /\ pc = "idle"
    /\ runs = 0
    /\ file_path = <<>>
    /\ disk \in Files
    /\ trips = <<>>
    /\ csv_filename = <<>>
    /\ staging = <<>>
    /\ constraint = FALSE
    /\ nodes = EmptyBag
    /\ edges = EmptyBag
    /\ driverOpen = FALSE
    /\ constructed = FALSE
    /\ closeCalled = FALSE
    /\ printed = FALSE
    /\ outcome = "none"
    /\ failedAt = "none"
    /\ projection = NoProjection
    /\ call = NoCall

\* a new process runs main()
Start ==
    /\ pc = "idle"
    /\ call = NoCall
    /\ runs < MaxRuns
    /\ file_path' = MainFile
    /\ pc' = "connect"
    /\ runs' = runs + 1
    /\ trips' = <<>>
    /\ csv_filename' = <<>>
    /\ driverOpen' = FALSE
    /\ constructed' = FALSE
    /\ closeCalled' = FALSE
    /\ printed' = FALSE
    /\ outcome' = "running"
    /\ failedAt' = "none"
    /\ UNCHANGED <<disk, projection, call>>
    /\ UNCHANGED dbVars

\* the input file is replaced between two runs
ReplaceFile ==
    /\ pc = "idle"
    /\ runs < MaxRuns
    /\ \E f \in Files : disk' = f
    /\ UNCHANGED <<projection, call>>
    /\ UNCHANGED loaderVars
    /\ UNCHANGED dbVars

\* DataLoader.__init__: GraphDatabase.driver, verify_connectivity
Connect ==
    /\ pc = "connect"
    /\ driverOpen' = TRUE
    /\ constructed' = TRUE
    /\ pc' = "read"
    /\ UNCHANGED <<runs, file_path, disk, trips, csv_filename, closeCalled,
                   printed, outcome, failedAt, projection, call>>
    /\ UNCHANGED dbVars

\* pq.read_table(file_path).to_pandas() and the six-column projection
ReadFile ==
    /\ pc = "read"
    /\ trips' = disk
    /\ pc' = "filter"
    /\ UNCHANGED <<runs, file_path, disk, csv_filename, driverOpen, constructed,
                   closeCalled, printed, outcome, failedAt, projection, call>>
    /\ UNCHANGED dbVars

\* the three filter statements
FilterStep ==
    /\ pc = "filter"
    /\ trips' = FilterFare(FilterDistance(FilterZone(trips)))
    /\ pc' = "reformat"
    /\ UNCHANGED <<runs, file_path, disk, csv_filename, driverOpen, constructed,
                   closeCalled, printed, outcome, failedAt, projection, call>>
    /\ UNCHANGED dbVars

\* pd.to_datetime and strftime on both timestamp columns
ReformatStep ==
    /\ pc = "reformat"
    /\ trips' = Reformat(trips)
    /\ pc' = "write"
    /\ UNCHANGED <<runs, file_path, disk, csv_filename, driverOpen, constructed,
                   closeCalled, printed, outcome, failedAt, projection, call>>
    /\ UNCHANGED dbVars

WriteFile(fs, name, rows) ==
    [ n \in (DOMAIN fs) \cup {name} |-> IF n = name THEN rows ELSE fs[n] ]

\* csv_filename = ...; trips.to_csv("/var/lib/neo4j/import/" + csv_filename)
WriteCsv ==
    /\ pc = "write"
    /\ csv_filename' = CsvFilename(file_path)
    /\ staging' = WriteFile(staging, CsvTarget(CsvFilename(file_path)), trips)
    /\ pc' = "ensure"
    /\ UNCHANGED <<runs, file_path, disk, trips, driverOpen, constructed,
                   closeCalled, printed, outcome, failedAt, projection, call>>
    /\ UNCHANGED <<constraint, nodes, edges>>

\* CREATE CONSTRAINT location_name_unique IF NOT EXISTS
EnsureConstraint ==
    /\ pc = "ensure"
    /\ constraint' = TRUE
    /\ pc' = "load"
    /\ UNCHANGED <<runs, file_path, disk, trips, csv_filename, driverOpen,
                   constructed, closeCalled, printed, outcome, failedAt,
                   projection, call>>
    /\ UNCHANGED <<staging, nodes, edges>>

\* the rows LOAD CSV reads
LoadedRows == staging[LoadSource(csv_filename)]

\* session.run(load_query)
BulkLoad ==
    /\ pc = "load"
    /\ LoadSource(csv_filename) \in DOMAIN staging
    /\ LET g == LoadCsv([nodes |-> nodes, edges |-> edges], LoadedRows)
       IN  /\ nodes' = g.nodes
           /\ edges' = g.edges
    /\ pc' = "close"
    /\ UNCHANGED <<runs, file_path, disk, trips, csv_filename, driverOpen,
                   constructed, closeCalled, printed, outcome, failedAt,
                   projection, call>>
    /\ UNCHANGED <<staging, constraint>>

\* data_loader.close()
Close ==
    /\ pc = "close"
    /\ driverOpen' = FALSE
    /\ closeCalled' = TRUE
    /\ pc' = "print"
    /\ UNCHANGED <<runs, file_path, disk, trips, csv_filename, constructed,
                   printed, outcome, failedAt, projection, call>>
    /\ UNCHANGED dbVars

\* print("Data loaded successfully.") and main() returns
PrintSuccess ==
    /\ pc = "print"
    /\ printed' = TRUE
    /\ outcome' = "success"
    /\ pc' = "done"
    /\ UNCHANGED <<runs, file_path, disk, trips, csv_filename, driverOpen,
                   constructed, closeCalled, failedAt, projection, call>>
    /\ UNCHANGED dbVars

\* a step raises, had main() printed the error and returned without raise
RaiseSwallowed ==
    /\ pc \in {"connect", "read", "filter", "reformat", "write", "ensure", "close"}
    /\ failedAt' = pc
    /\ outcome' = "success"
    /\ pc' = "done"
    /\ UNCHANGED <<runs, file_path, disk, trips, csv_filename, driverOpen,
                   constructed, closeCalled, printed, projection, call>>
    /\ UNCHANGED dbVars

\* a step raises: main() prints the error and re-raises it
Raise ==
    /\ pc \in {"connect", "read", "filter", "reformat", "write", "ensure", "close"}
    /\ failedAt' = pc
    /\ outcome' = "raised"
    /\ pc' = "done"
    /\ UNCHANGED <<runs, file_path, disk, trips, csv_filename, driverOpen,
                   constructed, closeCalled, printed, projection, call>>
    /\ UNCHANGED dbVars

\* session.run(load_query) raises after some of the rows were merged
BulkLoadRaise ==
    /\ pc = "load"
    /\ \E k \in 0..(IF LoadSource(csv_filename) \in DOMAIN staging
                    THEN Len(LoadedRows) ELSE 0) :
         LET g == LoadCsv([nodes |-> nodes, edges |-> edges],
                          IF k = 0 THEN <<>> ELSE SubSeq(LoadedRows, 1, k))
         IN  /\ nodes' = g.nodes
             /\ edges' = g.edges
    /\ failedAt' = "load"
    /\ outcome' = "raised"
    /\ pc' = "done"
    /\ UNCHANGED <<runs, file_path, disk, trips, csv_filename, driverOpen,
                   constructed, closeCalled, printed, projection, call>>
    /\ UNCHANGED <<staging, constraint>>

\* the process ends; its locals are gone and its socket is closed by the system
Exit ==
    /\ pc = "done"
    /\ pc' = "idle"
    /\ file_path' = <<>>
    /\ trips' = <<>>
    /\ csv_filename' = <<>>
    /\ driverOpen' = FALSE
    /\ constructed' = FALSE
    /\ closeCalled' = FALSE
    /\ printed' = FALSE
    /\ outcome' = "none"
    /\ failedAt' = "none"
    /\ UNCHANGED <<runs, disk, projection, call>>
    /\ UNCHANGED dbVars

-----------------------------------------------------------------------------
(* interface.py: pagerank *)

WeightProperties == {"fare", "distance"}

\* the drop, had it been left out
GdsDropNothing(cat) == cat

\* CALL gds.graph.drop('myGraph', false): dropping an absent graph is no error
GdsDrop(cat) == NoProjection

\* CALL gds.graph.project('myGraph', 'Location', {TRIP: {...}}): the catalog
\* refuses a name it already holds
GdsProject(cat, ns, es, weight_property) ==
    IF cat.exists
    THEN [ok |-> FALSE, cat |-> cat]
    ELSE [ok |-> TRUE,
          cat |-> [exists |-> TRUE, nodes |-> ns, edges |-> es,
                   weight |-> weight_property]]

Scores == 1..MaxScore

\* gds.pageRank.stream ... RETURN name, score ORDER BY score DESC: one record a
\* projected node, the scores never rising; the scores are the engine's
RankStreams(cat) ==
    LET n == BagCardinality(cat.nodes)
        names == BagToSet(cat.nodes)
    IN  { recs \in [1..n -> [name : names, score : Scores]] :
            /\ \A v \in names :
                 Cardinality({i \in 1..n : recs[i].name = v}) = CopiesIn(v, cat.nodes)
            /\ \A i \in 1..(n - 1) : recs[i].score >= recs[i + 1].score }

\* the two entries, had the second been records[1] and not records[-1]
MaxMinFirstTwo(records) ==
    IF records = <<>> THEN <<>>
    ELSE LET second == IF Len(records) > 1 THEN 2 ELSE 1
         IN  << [name |-> records[1].name, score |-> records[1].score],
                [name |-> records[second].name, score |-> records[second].score] >>

\* if not records: return []; else [records[0], records[-1]]
MaxMin(records) ==
    IF records = <<>> THEN <<>>
    ELSE << [name |-> records[1].name, score |-> records[1].score],
            [name |-> records[Len(records)].name,
             score |-> records[Len(records)].score] >>

\* 'myGraph' exists and is a projection of another graph than the stored one
StaleProjection ==
    projection.exists /\ (projection.nodes # nodes \/ projection.edges # edges)

\* Interface.pagerank(max_iterations, weight_property)
Pagerank ==
    /\ pc = "idle"
    /\ call = NoCall
    /\ \E weight_property \in WeightProperties, max_iterations \in {20} :
         LET dropped == GdsDrop(projection)
             made == GdsProject(dropped, nodes, edges, weight_property)
         IN  /\ projection' = made.cat
             /\ IF made.ok
                THEN \E records \in RankStreams(made.cat) :
                       call' = [op |-> "pagerank",
                                weight |-> weight_property,
                                iterations |-> max_iterations,
                                raised |-> FALSE,
                                hadProjection |-> projection.exists,
                                stale |-> StaleProjection,
                                records |-> records,
                                result |-> MaxMin(records)]
                ELSE call' = [op |-> "pagerank",
                              weight |-> weight_property,
                              iterations |-> max_iterations,
                              raised |-> TRUE,
                              hadProjection |-> projection.exists,
                              stale |-> StaleProjection,
                              records |-> <<>>,
                              result |-> <<>>]
    /\ UNCHANGED <<disk>>
    /\ UNCHANGED loaderVars
    /\ UNCHANGED dbVars

-----------------------------------------------------------------------------
(* interface.py: bfs *)

NodeSet == BagToSet(nodes)

\* a :TRIP relationship between u and v, in either direction
Linked(u, v) ==
    \E e \in BagToSet(edges) :
        \/ e.src = u /\ e.dst = v
        \/ e.src = v /\ e.dst = u

\* (start)-[:TRIP*]-(end): walks of one relationship or more
Walks(start_node, last_node) ==
    { w \in UNION { [1..n -> NodeSet] : n \in 2..(Cardinality(NodeSet) + 1) } :
        /\ w[1] = start_node
        /\ w[Len(w)] = last_node
        /\ \A i \in 1..(Len(w) - 1) : Linked(w[i], w[i + 1]) }

\* the outcome of MATCH p = shortestPath(...) RETURN [n IN nodes(p) | n.name]:
\* the rows it yields, or the refusal of a search whose two ends are the same
\* node (cypher.forbid_shortestpath_common_nodes), which a server may be set to
\* turn into no row at all
ShortestPathRows(start_node, last_node) ==
    IF start_node \notin NodeSet \/ last_node \notin NodeSet
    THEN {[raised |-> FALSE, rows |-> <<>>]}
    ELSE IF start_node = last_node
    THEN {[raised |-> TRUE, rows |-> <<>>], [raised |-> FALSE, rows |-> <<>>]}
    ELSE LET ws == Walks(start_node, last_node)
         IN  IF ws = {} THEN {[raised |-> FALSE, rows |-> <<>>]}
             ELSE { [raised |-> FALSE, rows |-> <<w>>] :
                      w \in { v \in ws : \A u \in ws : Len(v) <= Len(u) } }

\* record = result.single(); if not record: return []; else [{"path": [...]}]
BfsReturn(rows) ==
    IF rows = <<>> THEN <<>>
    ELSE << [path |-> [i \in DOMAIN rows[1] |-> [name |-> rows[1][i]]]] >>

\* Interface.bfs(start_node, last_node)
Bfs ==
    /\ pc = "idle"
    /\ call = NoCall
    /\ \E start_node \in LocIds, last_node \in LocIds :
         \E found \in ShortestPathRows(start_node, last_node) :
            call' = [op |-> "bfs",
                     start |-> start_node,
                     last |-> last_node,
                     raised |-> found.raised,
                     result |-> BfsReturn(found.rows)]
    /\ UNCHANGED <<disk, projection>>
    /\ UNCHANGED loaderVars
    /\ UNCHANGED dbVars

\* the caller takes what the call returned or raised
Return ==
    /\ call # NoCall
    /\ call' = NoCall
    /\ UNCHANGED <<disk, projection>>
    /\ UNCHANGED loaderVars
    /\ UNCHANGED dbVars

-----------------------------------------------------------------------------
(* Specifications *)

\* the steps of a run of main() in which nothing fails
LoaderRuns ==
    \/ Start
    \/ Connect
    \/ ReadFile
    \/ FilterStep
    \/ ReformatStep
    \/ WriteCsv
    \/ EnsureConstraint
    \/ BulkLoad
    \/ Close
    \/ PrintSuccess
    \/ Exit

LoaderStep == LoaderRuns \/ Raise \/ BulkLoadRaise

\* runs of main(), the input file being replaced at will between them
Next == LoaderStep \/ ReplaceFile

Spec == Init /\ [][Next]_vars

\* a state of load_transform_file between two of its steps
InCall(at, path, table) ==
    /\ pc = at
    /\ runs = 1
    /\ file_path = path
    /\ disk = table
    /\ csv_filename = <<>>
    /\ staging = <<>>
    /\ constraint = FALSE
    /\ nodes = EmptyBag
    /\ edges = EmptyBag
    /\ driverOpen = TRUE
    /\ constructed = TRUE
    /\ closeCalled = FALSE
    /\ printed = FALSE
    /\ outcome = "running"
    /\ failedAt = "none"
    /\ projection = NoProjection
    /\ call = NoCall

\* the filter chain on every table of FilterTables
InitFilter ==
    \E table \in FilterTables : InCall("filter", MainFile, table) /\ trips = table

NextFilter == FilterStep \/ ReformatStep \/ WriteCsv

SpecFilter == InitFilter /\ [][NextFilter]_vars

\* the staging file of every path of PathUniverse
InitPath ==
    \E path \in PathUniverse :
        /\ InCall("write", path, <<Trip(3, 18, 11, 251, 0)>>)
        /\ trips = Reformat(<<Trip(3, 18, 11, 251, 0)>>)

NextPath == WriteCsv \/ EnsureConstraint \/ BulkLoad

SpecPath == InitPath /\ [][NextPath]_vars

\* runs of main() on one file, none of them failing, and the two queries
\* between them
InitQuery ==
    /\ disk \in QueryFiles
    /\ pc = "idle"
    /\ runs = 0
    /\ file_path = <<>>
    /\ trips = <<>>
    /\ csv_filename = <<>>
    /\ staging = <<>>
    /\ constraint = FALSE
    /\ nodes = EmptyBag
    /\ edges = EmptyBag
    /\ driverOpen = FALSE
    /\ constructed = FALSE
    /\ closeCalled = FALSE
    /\ printed = FALSE
    /\ outcome = "none"
    /\ failedAt = "none"
    /\ projection = NoProjection
    /\ call = NoCall

NextQuery == LoaderRuns \/ Pagerank \/ Bfs \/ Return

SpecQuery == InitQuery /\ [][NextQuery]_vars

-----------------------------------------------------------------------------
(* Claims *)

\* the four predicates of the filter, taken together
KeepRow(r) ==
    /\ r.PULocationID \in bronx
    /\ r.DOLocationID \in bronx
    /\ r.trip_distance > DistanceMin
    /\ r.fare_amount > FareMin

\* the staging file of the call in progress
Staged == staging[CsvTarget(csv_filename)]

\* C1: a row of the input file is in the staging CSV if and only if its pickup
\* and dropoff ids are in the bronx set, its distance is above 0.1 and its fare
\* above 2.5; nothing else is added, and applying the predicates in any other
\* order gives the same rows.
C1_FilterIff ==
    /\ pc = "reformat" =>
         /\ trips = SelectSeq(disk, KeepRow)
         /\ trips = FilterZone(FilterDistance(FilterFare(disk)))
         /\ trips = FilterDistance(FilterFare(FilterZone(disk)))
         /\ trips = FilterFare(FilterZone(FilterDistance(disk)))
         /\ trips = FilterDistance(FilterZone(FilterFare(disk)))
    /\ pc = "ensure" =>
         /\ CsvTarget(csv_filename) \in DOMAIN staging
         /\ Staged = Reformat(SelectSeq(disk, KeepRow))

\* a two-row file of which one row was kept and one dropped is staged
C1_Witness ==
    /\ pc = "ensure"
    /\ Len(disk) = 2
    /\ Len(Staged) = 1
    /\ \E i \in DOMAIN disk : disk[i].trip_distance = DistanceMin

\* C2: a second run on the same file, after a first run into the empty graph,
\* leaves the Location nodes as they were, one a location id, and doubles the
\* TRIP edges.
C2_RerunDoublesEdges ==
    [][ (pc = "load" /\ pc' = "close" /\ runs = 2) =>
          /\ nodes' = nodes
          /\ \A v \in BagToSet(nodes') : CopiesIn(v, nodes') = 1
          /\ BagCardinality(edges') = 2 * BagCardinality(edges) ]_vars

\* C3: one load into the empty graph makes as many TRIP edges as there are
\* staged rows, two equal rows included.
C3_EdgePerRow ==
    (pc = "close" /\ runs = 1) => BagCardinality(edges) = Len(Staged)

\* C4: every Location node has a name of the bronx set and every TRIP edge
\* joins two such nodes, whatever files were loaded and whichever runs failed.
C4_GraphInZone ==
    /\ \A v \in BagToSet(nodes) : v \in bronx
    /\ \A e \in BagToSet(edges) :
         /\ e.src \in bronx /\ BagIn(e.src, nodes)
         /\ e.dst \in bronx /\ BagIn(e.dst, nodes)

\* a second run, on a file with a row that leaves the bronx set, failed in the
\* middle of its bulk load and the graph holds trips
C4_Witness ==
    /\ pc = "done"
    /\ runs = 2
    /\ failedAt = "load"
    /\ edges # EmptyBag
    /\ \E i \in DOMAIN disk : disk[i].DOLocationID \notin bronx

MaxScoreOf(records) ==
    CHOOSE m \in Scores :
        /\ \E i \in DOMAIN records : records[i].score = m
        /\ \A i \in DOMAIN records : records[i].score <= m

MinScoreOf(records) ==
    CHOOSE m \in Scores :
        /\ \E i \in DOMAIN records : records[i].score = m
        /\ \A i \in DOMAIN records : records[i].score >= m

C6_ShortestPath ==
    call.op = "bfs" =>
      LET names == [i \in DOMAIN call.result[1].path |-> call.result[1].path[i].name]
          joined == call.start = call.last \/ Walks(call.start, call.last) # {}
      IN  /\ ~call.raised
          /\ IF call.start \notin NodeSet \/ call.last \notin NodeSet \/ ~joined
             THEN call.result = <<>>
             ELSE /\ Len(call.result) = 1
                  /\ IF call.start = call.last
                     THEN names = <<call.start>>
                     ELSE /\ names \in Walks(call.start, call.last)
                          /\ \A w \in Walks(call.start, call.last) :
                               Len(names) <= Len(w)

NextOf(at) ==
    CASE at = "connect"  -> "read"
      [] at = "read"     -> "filter"
      [] at = "filter"   -> "reformat"
      [] at = "reformat" -> "write"
      [] at = "write"    -> "ensure"
      [] at = "ensure"   -> "load"
      [] at = "load"     -> "close"
      [] at = "close"    -> "print"
      [] OTHER           -> "done"

Position(at) == CHOOSE i \in 1..10 :
    <<"idle", "connect", "read", "filter", "reformat", "write", "ensure",
      "load", "close", "print">>[i] = at

\* what the steps before the current one have left behind, and how main ends
C7_EarlierStepsDone ==
    /\ pc \notin {"idle", "done"} =>
         /\ Position(pc) > Position("connect") => constructed
         /\ Position(pc) > Position("write") =>
              /\ CsvTarget(csv_filename) \in DOMAIN staging
              /\ Staged = trips
         /\ Position(pc) > Position("ensure") => constraint
         /\ Position(pc) > Position("close") => closeCalled
         /\ ~printed
         /\ outcome = "running"
    /\ pc = "done" =>
         \/ outcome = "raised" /\ failedAt # "none" /\ ~printed
         \/ /\ outcome = "success" /\ failedAt = "none" /\ printed
            /\ constructed /\ constraint /\ closeCalled
            /\ CsvTarget(csv_filename) \in DOMAIN staging

\* what a step, and a failing step, may change
C7_StepEffects ==
    /\ (pc \notin {"idle", "done"} /\ pc' # pc) => pc' \in {NextOf(pc), "done"}
    /\ staging' # staging => (pc = "write" /\ pc' = "ensure")
    /\ constraint' # constraint => (pc = "ensure" /\ pc' = "load")
    /\ (nodes' # nodes \/ edges' # edges) => pc = "load"
    /\ printed' # printed => (pc \in {"print", "done"})
    /\ (outcome' = "raised" /\ outcome # "raised") =>
         /\ pc \in {"connect", "read", "filter", "reformat", "write", "ensure",
                    "load", "close"}
         /\ failedAt' = pc
         /\ pc' = "done"
         /\ ~printed'
         /\ staging' = staging
         /\ constraint' = constraint
         /\ nodes \sqsubseteq nodes'
         /\ edges \sqsubseteq edges'
    /\ pc = "done" =>
         /\ pc' \in {"done", "idle"}
         /\ staging' = staging /\ constraint' = constraint
         /\ nodes' = nodes /\ edges' = edges
         /\ outcome = "raised" => ~printed

\* C7: a run goes through connect, read, filter and reformat, write, ensure
\* constraint and bulk load in this order; the first step that fails ends the
\* run with the error raised out of main, no later step acts, the success
\* message is not printed, and what the earlier steps wrote stays.
C7_FailFast == [](C7_EarlierStepsDone) /\ [][C7_StepEffects]_vars

\* a run failed at the constraint after it had written its staging file
C7_Witness ==
    /\ pc = "done"
    /\ outcome = "raised"
    /\ failedAt = "ensure"
    /\ CsvTarget(csv_filename) \in DOMAIN staging
    /\ Staged # <<>>
    /\ ~constraint
    /\ ~printed

\* C8: a pagerank call does not fail whether or not 'myGraph' exists when it
\* starts, and it ranks a projection made during the call from the Location
\* nodes and TRIP edges stored at that moment.
C8_FreshProjection ==
    call.op = "pagerank" =>
      /\ ~call.raised
      /\ projection.exists
      /\ projection.nodes = nodes
      /\ projection.edges = edges
      /\ projection.weight = call.weight
      /\ \A v \in BagToSet(nodes) : \E i \in DOMAIN call.records : call.records[i].name = v
      /\ \A i \in DOMAIN call.records : BagIn(call.records[i].name, nodes)

\* pagerank found a projection of an older graph and ranked the present one
C8_Witness ==
    /\ call.op = "pagerank"
    /\ call.hadProjection
    /\ call.stale
    /\ edges # EmptyBag

\* the name of the file with its extension replaced by .csv
LastOf(p, piece) ==
    IF \E i \in DOMAIN p : p[i] = piece
    THEN CHOOSE i \in DOMAIN p : p[i] = piece /\ \A j \in (i + 1)..Len(p) : p[j] # piece
    ELSE 0

BaseName(p) == SubSeq(p, LastOf(p, "/") + 1, Len(p))

Stem(name) ==
    IF LastOf(name, ".") > 1 THEN SubSeq(name, 1, LastOf(name, ".") - 1) ELSE name

\* C9: the staging CSV is written directly inside the import directory under
\* the name of the input file with only its extension replaced by .csv, and
\* the bulk load reads that file.
C9_StagingName ==
    pc \in {"ensure", "load", "close"} =>
      /\ csv_filename = Stem(BaseName(file_path)) \o <<".", "csv">>
      /\ \A i \in DOMAIN csv_filename : csv_filename[i] # "/"
      /\ CsvTarget(csv_filename) \in DOMAIN staging
      /\ LoadSource(csv_filename) = CsvTarget(csv_filename)

\* C10: in a run of main in which the DataLoader was constructed, close() has
\* been called by the time main returns or raises.
C10_Closed ==
    (pc = "done" /\ constructed) => closeCalled

====
